---- MODULE Spec2Model ----
(***************************************************************************)
(* Model of draw.py: a driver that turns recorded freehand drawings into   *)
(* G-code for a pen plotter and sends it over a serial line.               *)
(*                                                                         *)
(* Numbers.  Device coordinates are fixed-point integers, Unit steps per   *)
(* millimetre; feed rates are Unit steps per (mm/min); timestamps are      *)
(* milliseconds.  The drawings of the catalogue are chosen so that every   *)
(* product and quotient of Scaler is exact in this resolution.             *)
(* Text.  A line of the serial stream is a sequence of one-character       *)
(* strings; decode() is taken on ASCII bytes.                              *)
(***************************************************************************)
EXTENDS Integers, Sequences, FiniteSets, TLC

\* ---------------------------------------------------------------- bounds
MaxRecords == 2     \* lines the drawing source yields at most
MaxLimit == 2       \* largest `limit` handed to stream_and_plot
MaxReads == 2       \* the per-send count of consumed lines saturates here

\* ------------------------------------------------------ program constants
SPEED_MULTIPLIER == 20
BOUNDS == 250
PEN_UP == 0
PEN_DOWN == -8
MARGIN == 5          \* the literal 5 added in Scaler.scale
MAX_FEED == 11500    \* the literal cap of clamped_velocity
NSETUP == 7          \* the seven setup commands of main
Unit == 100          \* fixed-point steps per millimetre

Min2(a, b) == IF a <= b THEN a ELSE b
Max2(a, b) == IF a >= b THEN a ELSE b
Range(s) == {s[j] : j \in 1..Len(s)}

\* --------------------------------------------------------------- text
\* bytes.decode().strip(): leading and trailing whitespace is removed
Whitespace == {" ", "\t", "\r", "\n"}

RECURSIVE LStrip(_)
LStrip(s) ==
  IF s # <<>> /\ Head(s) \in Whitespace THEN LStrip(Tail(s)) ELSE s

RECURSIVE RStrip(_)
RStrip(s) ==
  IF s # <<>> /\ s[Len(s)] \in Whitespace
  THEN RStrip(SubSeq(s, 1, Len(s) - 1)) ELSE s

Strip(s) == LStrip(RStrip(s))

\* str.lower() on the letters that occur on the line
LowerChar(c) ==
  CASE c = "A" -> "a" [] c = "E" -> "e" [] c = "K" -> "k" [] c = "L" -> "l"
    [] c = "M" -> "m" [] c = "O" -> "o" [] c = "R" -> "r" [] c = "S" -> "s"
    [] c = "G" -> "g" [] c = "T" -> "t" [] c = "N" -> "n"
    [] OTHER -> c

Lower(s) == [j \in 1..Len(s) |-> LowerChar(s[j])]

\* the `in` operator on strings: sub occurs in s as a contiguous substring
Contains(s, sub) ==
  \E j \in 1..(Len(s) - Len(sub) + 1) : SubSeq(s, j, j + Len(sub) - 1) = sub

TokOk == <<"o", "k">>
TokError == <<"e", "r", "r", "o", "r">>
TokAlarm == <<"a", "l", "a", "r", "m">>

\* line 96: if "ok" in line.lower()
IsOkCaseSensitive(line) == Contains(line, TokOk)
IsOk(line) == Contains(Lower(line), TokOk)

\* line 98: if "error" in line.lower() or "alarm" in line.lower()
IsFault(line) ==
  Contains(Lower(line), TokError) \/ Contains(Lower(line), TokAlarm)

\* what s.readline() can hand back on a serial port opened with timeout=1
LineTimeout == <<>>
LineOk == <<"o", "k", "\r", "\n">>
LineOkUpper == <<" ", "O", "K", " ", "\r", "\n">>
LineError == <<"e", "r", "r", "o", "r", ":", "2", "\r", "\n">>
LineErrorMixed == <<" ", "E", "r", "r", "O", "R", ":", "9", " ", "\r", "\n">>
LineAlarm == <<"A", "L", "A", "R", "M", ":", "1", "\r", "\n">>
LineStatus == <<"<", "I", "d", "l", "e", ">", "\r", "\n">>
LineBlank == <<"\r", "\n">>
LineErrorToken ==
  <<"e", "r", "r", "o", "r", ":", " ", "t", "o", "k", "e", "n", "\r", "\n">>

QuietLines == {LineTimeout, LineStatus, LineBlank}
DeviceLines ==
  QuietLines \cup {LineOk, LineOkUpper, LineError, LineErrorMixed, LineAlarm,
                   LineErrorToken}

\* ------------------------------------------------------------ transport
SerialInstance == "serial.Serial()"
MockInstance == "MockSerialPort()"
MockSerialPort == "class MockSerialPort"

\* line 90: `s is not MockSerialPort` compares the object s with the class
AwaitsAckIsInstance(s) == s # MockInstance
AwaitsAckNever(s) == FALSE
AwaitsAck(s) == s # MockSerialPort

\* MockSerialPort defines write, in_waiting and close, and no readline
HasReadline(s) == s = SerialInstance

\* MockSerialPort.in_waiting
InWaiting(s) == 0

\* -------------------------------------------------------------- Scaler
\* random.uniform draws, as percentages of the interval they are drawn from
ScaleChoices == {25, 75}
OffsetChoices == {0, 100}

SeqMin(s) == CHOOSE m \in Range(s) : \A e \in Range(s) : m <= e
SeqMax(s) == CHOOSE m \in Range(s) : \A e \in Range(s) : m >= e

\* lines 114-122: the bounding box over every stroke; a stroke is <<xs, ys, ts>>
BBox(strokes) ==
  [min_x |-> SeqMin([k \in 1..Len(strokes) |-> SeqMin(strokes[k][1])]),
   max_x |-> SeqMax([k \in 1..Len(strokes) |-> SeqMax(strokes[k][1])]),
   min_y |-> SeqMin([k \in 1..Len(strokes) |-> SeqMin(strokes[k][2])]),
   max_y |-> SeqMax([k \in 1..Len(strokes) |-> SeqMax(strokes[k][2])])]

\* line 37: the denominator of master_scale
MasterDen(x_range, y_range) == Max2(x_range, y_range)

\* line 37: bounds / max(x_range, y_range) raises ZeroDivisionError
ScalerRaises(bb) ==
  MasterDen(bb.max_x - bb.min_x, bb.max_y - bb.min_y) = 0

\* Scaler.__init__: multiplier = master_scale * smaller_scale is kept as the
\* fraction mul_num / mul_den, in Unit steps per pixel
NewScalerFullOffset(bb, bounds, scalePct, offXPct, offYPct) ==
  LET den == MasterDen(bb.max_x - bb.min_x, bb.max_y - bb.min_y)
  IN [smaller_scale |-> scalePct,
      offset_x |-> (bounds * Unit * offXPct) \div 100,
      offset_y |-> (bounds * Unit * offYPct) \div 100,
      min_x |-> bb.min_x,
      min_y |-> bb.min_y,
      mul_num |-> bounds * scalePct * (Unit \div 100),
      mul_den |-> den]
NewScaler(bb, bounds, scalePct, offXPct, offYPct) ==
  LET x_range == bb.max_x - bb.min_x
      y_range == bb.max_y - bb.min_y
      den == MasterDen(x_range, y_range)
      num == bounds * scalePct * (Unit \div 100)
      final_w == (x_range * num) \div den
      final_h == (y_range * num) \div den
      max_offset_x == bounds * Unit - final_w
      max_offset_y == bounds * Unit - final_h
  IN [smaller_scale |-> scalePct,
      offset_x |-> (max_offset_x * offXPct) \div 100,
      offset_y |-> (max_offset_y * offYPct) \div 100,
      min_x |-> bb.min_x,
      min_y |-> bb.min_y,
      mul_num |-> num,
      mul_den |-> den]

\* a drawing without strokes: the bounding box is (inf, -inf), the ranges are
\* -inf, master_scale is -0.0 and every derived field is nan; nothing raises
NanScaler ==
  [smaller_scale |-> 0, offset_x |-> 0, offset_y |-> 0, min_x |-> 0,
   min_y |-> 0, mul_num |-> 0, mul_den |-> 0]

\* Scaler.scale
ScaleX(sc, x) ==
  ((x - sc.min_x) * sc.mul_num) \div sc.mul_den + sc.offset_x + MARGIN * Unit
ScaleY(sc, y) ==
  -(((y - sc.min_y) * sc.mul_num) \div sc.mul_den + sc.offset_y + MARGIN * Unit)

\* lines 59-64: the Scaler a call of scale leaves behind; scale assigns to no
\* attribute of self
ScalerAfterScaleDrift(sc) == [sc EXCEPT !.offset_x = sc.offset_x + 1]
ScalerAfterScale(sc) == sc

\* math.sqrt, rounded down to the fixed-point step
RECURSIVE SqrtIter(_, _, _)
SqrtIter(n, lo, hi) ==
  IF lo >= hi THEN lo
  ELSE LET mid == (lo + hi + 1) \div 2
       IN IF mid * mid <= n THEN SqrtIter(n, mid, hi)
          ELSE SqrtIter(n, lo, mid - 1)
ISqrt(n) == SqrtIter(n, 0, 46340)

\* line 148 numerator: the device-space distance between points i-1 and i
SegDist(sc, stroke, i) ==
  LET dx == ScaleX(sc, stroke[1][i]) - ScaleX(sc, stroke[1][i - 1])
      dy == ScaleY(sc, stroke[2][i]) - ScaleY(sc, stroke[2][i - 1])
  IN ISqrt(dx * dx + dy * dy)

\* line 132: scaler.scale(x_coords[0], y_coords[0])
RapidTargetLast(sc, stroke) ==
  <<ScaleX(sc, stroke[1][Len(stroke[1])]), ScaleY(sc, stroke[2][Len(stroke[2])])>>
RapidTarget(sc, stroke) ==
  <<ScaleX(sc, stroke[1][1]), ScaleY(sc, stroke[2][1])>>

\* line 140
DeltaMs(stroke, i) == stroke[3][i] - stroke[3][i - 1]

\* lines 143 and 153: the two `continue` tests of the segment loop
SegSkippedTimeOnly(sc, stroke, i) == DeltaMs(stroke, i) <= 0
SegSkipped(sc, stroke, i) ==
  \/ DeltaMs(stroke, i) <= 0
  \/ SegDist(sc, stroke, i) <= 0

\* lines 148 and 159 for a speed multiplier m: min(velocity * m, 11500),
\* velocity being distance / (delta_ms / 1000)
FeedRate(sc, stroke, i, m) ==
  Min2((SegDist(sc, stroke, i) * 1000 * m) \div DeltaMs(stroke, i),
       MAX_FEED * Unit)

\* line 159 with the module's SPEED_MULTIPLIER
ClampedVelocityNoCap(sc, stroke, i) ==
  (SegDist(sc, stroke, i) * 1000 * SPEED_MULTIPLIER) \div DeltaMs(stroke, i)
ClampedVelocity(sc, stroke, i) == FeedRate(sc, stroke, i, SPEED_MULTIPLIER)

\* ------------------------------------------------------------ commands
\* k, i and pen are bookkeeping: the stroke and point the command belongs to
\* and the commanded pen position at the moment it is written
Cmd(kind, x, y, f, k, i, p) ==
  [kind |-> kind, x |-> x, y |-> y, f |-> f, k |-> k, i |-> i, pen |-> p]
NoCmd == Cmd("none", 0, 0, 0, 0, 0, "up")

\* --------------------------------------------- drawings the source yields
DEmpty == <<>>
DPoint == << <<<<5>>, <<5>>, <<0>>>> >>
DSame == << <<<<1, 1>>, <<1, 1>>, <<0, 100>>>> >>
DLine == << <<<<0, 2>>, <<0, 0>>, <<0, 200>>>> >>
DTwo == << <<<<0, 2>>, <<0, 2>>, <<0, 200>>>>, <<<<2>>, <<0>>, <<300>>>> >>
DSkipFirst == << <<<<0, 2, 2>>, <<0, 0, 2>>, <<0, 0, 100>>>> >>
DSkipLast == << <<<<0, 2, 2>>, <<0, 0, 2>>, <<0, 100, 100>>>> >>
DDup == << <<<<0, 0, 2>>, <<0, 0, 0>>, <<0, 100, 200>>>> >>
Drawings == {DEmpty, DPoint, DSame, DLine, DTwo, DSkipFirst, DSkipLast, DDup}

\* ---------------------------------------------------------------- state
VARIABLES
  pc,          \* position of the main thread
  s,           \* the transport object of main
  device,      \* "responsive", or "mute": a plotter that never acknowledges
  source,      \* what response.iter_lines() yields: "blank" or "record" lines
  limit,       \* parameter of stream_and_plot
  pos,         \* lines pulled from the source so far
  count,       \* local of stream_and_plot
  plotted,     \* source positions of the drawings handed to plot_drawing
  setupIdx,    \* next setup command of main
  drawing,     \* drawing_data['drawing'] of the current plot_drawing call
  scaler,      \* local of plot_drawing
  k,           \* index of the current stroke (from 1)
  i,           \* index of the current point of the stroke (from 1)
  sendState,   \* "idle", "wait" (inside the while loop of send), "raised"
  lastRaw,     \* bytes of the last s.readline() of the current send
  nread,       \* lines consumed by the current send, saturating
  lastOutcome, \* how the wait of the latest send ended
  pending,     \* commands written and not yet answered by a terminating line
  written,     \* commands sent by the current plot_drawing call
  lastCmd,     \* the last command handed to s.write by send
  nWrites,     \* commands written by send in this run
  nPenUps,     \* pen-up commands written in this run
  nStrokes,    \* strokes started in this run
  pen,         \* commanded pen position
  rawWrites,   \* bytes objects written by reset_plotter
  error        \* the exception that ended the run, or "none"

vars ==
  <<pc, s, device, source, limit, pos, count, plotted, setupIdx, drawing,
    scaler, k, i, sendState, lastRaw, nread, lastOutcome, pending,
    written, lastCmd, nWrites, nPenUps, nStrokes, pen, rawWrites, error>>

inputVars == <<device, source, limit>>
driverVars == <<pos, count, plotted>>
plotVars == <<drawing, scaler, k, i>>
waitVars == <<lastRaw, nread, lastOutcome>>
wireVars == <<sendState, pending, lastCmd, nWrites, nPenUps, pen>>

RECURSIVE SeqsUpTo(_, _)
SeqsUpTo(S, n) ==
  IF n = 0 THEN {<<>>}
  ELSE LET shorter == SeqsUpTo(S, n - 1)
       IN shorter \cup {Append(q, e) : q \in shorter, e \in S}

Init ==
  /\ pc = "open"
  /\ s = "none"
  /\ device \in {"responsive", "mute"}
  /\ source \in SeqsUpTo({"blank", "record"}, MaxRecords)
  /\ limit \in 0..MaxLimit
  /\ pos = 0
  /\ count = 0
  /\ plotted = <<>>
  /\ setupIdx = 1
  /\ drawing = <<>>
  /\ scaler = NanScaler
  /\ k = 0
  /\ i = 0
  /\ sendState = "idle"
  /\ lastRaw = <<>>
  /\ nread = 0
  /\ lastOutcome = "none"
  /\ pending = 0
  /\ written = <<>>
  /\ lastCmd = NoCmd
  /\ nWrites = 0
  /\ nPenUps = 0
  /\ nStrokes = 0
  /\ pen = "up"
  /\ rawWrites = 0
  /\ error = "none"

\* ----------------------------------------------------------------- send
\* lines 87-90 and 101-104 of send: the write, then either the entry into
\* the acknowledgment loop or the drain of the simulated branch
SendWrite(cmd) ==
  /\ sendState = "idle"
  /\ lastCmd' = cmd
  /\ nWrites' = nWrites + 1
  /\ pending' = pending + 1
  /\ nPenUps' = IF cmd.kind = "PenUp" THEN nPenUps + 1 ELSE nPenUps
  /\ pen' = CASE cmd.kind = "PenUp" -> "up"
              [] cmd.kind = "PenDown" -> "down"
              [] OTHER -> pen
  /\ lastRaw' = <<>>
  /\ nread' = 0
  /\ IF AwaitsAck(s)
     THEN /\ sendState' = "wait"
          /\ lastOutcome' = "none"
     ELSE \* while s.in_waiting: nothing is waiting, send returns
          /\ InWaiting(s) = 0
          /\ sendState' = "idle"
          /\ lastOutcome' = "Acknowledged"

\* lines 96-100: how often send writes the command again once its wait has
\* ended with the given outcome; both branches only `break`
ResendCountOnFault(outcome) == IF outcome = "DeviceFault" THEN 1 ELSE 0
ResendCount(outcome) == 0

\* lines 92-100 of send: one turn of the while loop
ReadLine ==
  /\ sendState = "wait"
  /\ IF ~HasReadline(s)
     THEN \* s.readline on a MockSerialPort: AttributeError
          /\ sendState' = "raised"
          /\ pc' = "crashed"
          /\ error' = "AttributeError"
          /\ UNCHANGED <<waitVars, pending, nWrites>>
     ELSE \E raw \in (IF device = "mute" THEN QuietLines ELSE DeviceLines) :
            LET line == Strip(raw)
            IN /\ lastRaw' = raw
               /\ nread' = Min2(nread + 1, MaxReads)
               /\ IF IsOk(line)
                  THEN /\ sendState' = "idle"
                       /\ lastOutcome' = "Acknowledged"
                       /\ pending' = pending - 1
                  ELSE IF IsFault(line)
                  THEN /\ sendState' = "idle"
                       /\ lastOutcome' = "DeviceFault"
                       /\ pending' = pending - 1
                  ELSE /\ sendState' = "wait"
                       /\ UNCHANGED <<lastOutcome, pending>>
               /\ nWrites' = nWrites + ResendCount(lastOutcome')
               /\ UNCHANGED <<pc, error>>
  /\ UNCHANGED <<s, inputVars, driverVars, setupIdx, plotVars, written,
                 lastCmd, nPenUps, nStrokes, pen, rawWrites>>

\* ----------------------------------------------------------------- main
\* lines 221-223: the port opens; reset_plotter writes the soft reset and
\* the unlock command without waiting for a reply
OpenSerial ==
  /\ pc = "open"
  /\ s' = SerialInstance
  /\ rawWrites' = 2
  /\ pc' = "setup"
  /\ UNCHANGED <<inputVars, driverVars, setupIdx, plotVars, waitVars,
                 wireVars, written, nStrokes, error>>

\* lines 224-227: serial.SerialException, the simulated port is substituted
OpenSerialFails ==
  /\ pc = "open"
  /\ s' = MockInstance
  /\ pc' = "setup"
  /\ UNCHANGED <<inputVars, driverVars, setupIdx, plotVars, waitVars,
                 wireVars, written, nStrokes, rawWrites, error>>

\* lines 230-239: G21, G90, $32=0, $20=0, $130, $131, G10 L20 P1 X0 Y0 Z0
SetupSend ==
  /\ pc = "setup"
  /\ SendWrite(Cmd("Setup", 0, 0, 0, 0, setupIdx, pen))
  /\ setupIdx' = setupIdx + 1
  /\ pc' = IF setupIdx = NSETUP THEN "fetch" ELSE "setup"
  /\ UNCHANGED <<s, inputVars, driverVars, plotVars, written, nStrokes,
                 rawWrites, error>>

\* lines 265, 266 and 268
FinalPenUp ==
  /\ pc = "final_up"
  /\ SendWrite(Cmd("PenUp", 0, 0, 7000 * Unit, 0, 0, pen))
  /\ pc' = "final_home"
  /\ UNCHANGED <<s, inputVars, driverVars, setupIdx, plotVars, written,
                 nStrokes, rawWrites, error>>

FinalHome ==
  /\ pc = "final_home"
  /\ SendWrite(Cmd("RapidMove", 0, 0, 0, 0, 0, pen))
  /\ pc' = "close"
  /\ UNCHANGED <<s, inputVars, driverVars, setupIdx, plotVars, written,
                 nStrokes, rawWrites, error>>

Close ==
  /\ pc = "close"
  /\ sendState = "idle"
  /\ pc' = "done"
  /\ UNCHANGED <<s, inputVars, driverVars, setupIdx, plotVars, waitVars,
                 wireVars, written, nStrokes, rawWrites, error>>

\* ------------------------------------------------------ stream_and_plot
\* lines 176-180: the request succeeds
Fetch ==
  /\ pc = "fetch"
  /\ sendState = "idle"
  /\ pc' = "iter"
  /\ UNCHANGED <<s, inputVars, driverVars, setupIdx, plotVars, waitVars,
                 wireVars, written, nStrokes, rawWrites, error>>

\* lines 181-184: sys.exit on a network error
FetchFails ==
  /\ pc = "fetch"
  /\ sendState = "idle"
  /\ pc' = "exited"
  /\ error' = "SystemExit"
  /\ UNCHANGED <<s, inputVars, driverVars, setupIdx, plotVars, waitVars,
                 wireVars, written, nStrokes, rawWrites>>

\* line 189: if line and count < limit
ShouldPlotInclusive(line, cnt, lim) == line = "record" /\ cnt <= lim
ShouldPlot(line, cnt, lim) == line = "record" /\ cnt < lim

\* line 196: elif count >= limit
LimitReachedLate(cnt, lim) == cnt > lim
LimitReached(cnt, lim) == cnt >= lim

\* lines 188-197: one turn of `for line in response.iter_lines()`
IterNext ==
  /\ pc = "iter"
  /\ sendState = "idle"
  /\ IF pos = Len(source)
     THEN /\ pc' = "final_up"
          /\ UNCHANGED <<pos, drawing>>
     ELSE /\ pos' = pos + 1
          /\ IF ShouldPlot(source[pos + 1], count, limit)
             THEN /\ pc' = "plot"
                  /\ drawing' \in Drawings
             ELSE IF LimitReached(count, limit)
             THEN /\ pc' = "final_up"
                  /\ UNCHANGED drawing
             ELSE /\ pc' = "iter"
                  /\ UNCHANGED drawing
  /\ UNCHANGED <<s, inputVars, count, plotted, setupIdx, scaler, k, i,
                 waitVars, wireVars, written, nStrokes, rawWrites, error>>

\* line 195, reached when plot_drawing has returned: its locals (the drawing,
\* the Scaler, the loop indices, what it emitted) are out of scope
Counted ==
  /\ pc = "counted"
  /\ sendState = "idle"
  /\ count' = count + 1
  /\ plotted' = Append(plotted, pos)
  /\ pc' = "iter"
  /\ drawing' = <<>>
  /\ scaler' = NanScaler
  /\ k' = 0
  /\ i' = 0
  /\ written' = <<>>
  /\ UNCHANGED <<s, inputVars, pos, setupIdx, waitVars, wireVars, nStrokes,
                 rawWrites, error>>

\* --------------------------------------------------------- plot_drawing
\* lines 112-123: the bounding box and the Scaler
PlotBegin ==
  /\ pc = "plot"
  /\ written' = <<>>
  /\ IF drawing = <<>>
     THEN /\ scaler' = NanScaler
          /\ pc' = "trail"
          /\ UNCHANGED <<k, i, error>>
     ELSE IF ScalerRaises(BBox(drawing))
     THEN /\ pc' = "crashed"
          /\ error' = "ZeroDivisionError"
          /\ UNCHANGED <<scaler, k, i>>
     ELSE /\ \E sp \in ScaleChoices, ox \in OffsetChoices, oy \in OffsetChoices :
               scaler' = NewScaler(BBox(drawing), BOUNDS, sp, ox, oy)
          /\ k' = 1
          /\ pc' = "pen_up"
          /\ UNCHANGED <<i, error>>
  /\ UNCHANGED <<s, inputVars, driverVars, setupIdx, drawing, waitVars,
                 wireVars, nStrokes, rawWrites>>

\* line 131
StrokePenUp ==
  /\ pc = "pen_up"
  /\ LET cmd == Cmd("PenUp", 0, 0, 7000 * Unit, k, 0, pen)
     IN /\ SendWrite(cmd)
        /\ written' = Append(written, cmd)
  /\ nStrokes' = nStrokes + 1
  /\ pc' = "rapid"
  /\ UNCHANGED <<s, inputVars, driverVars, setupIdx, plotVars, rawWrites,
                 error>>

\* lines 132-133
StrokeRapid ==
  /\ pc = "rapid"
  /\ LET stroke == drawing[k]
         start == RapidTarget(scaler, stroke)
         cmd == Cmd("RapidMove", start[1], start[2], MAX_FEED * Unit, k, 1, pen)
     IN /\ SendWrite(cmd)
        /\ written' = Append(written, cmd)
  /\ scaler' = ScalerAfterScale(scaler)
  /\ pc' = "pen_down"
  /\ UNCHANGED <<s, inputVars, driverVars, setupIdx, drawing, k, i, nStrokes,
                 rawWrites, error>>

\* line 136
StrokePenDown ==
  /\ pc = "pen_down"
  /\ LET cmd == Cmd("PenDown", 0, 0, 7000 * Unit, k, 0, pen)
     IN /\ SendWrite(cmd)
        /\ written' = Append(written, cmd)
  /\ i' = 2
  /\ pc' = "segment"
  /\ UNCHANGED <<s, inputVars, driverVars, setupIdx, drawing, scaler, k,
                 nStrokes, rawWrites, error>>

\* line 138: range(1, len(x_coords)) is exhausted; i counts points from 1
SegLoopDoneEarly(idx, n) == idx >= n
SegLoopDone(idx, n) == idx > n

\* lines 138-160: one turn of `for i in range(1, len(x_coords))`, or its end
\* and the step of `for stroke in strokes`
Segment ==
  /\ pc = "segment"
  /\ sendState = "idle"
  /\ LET stroke == drawing[k]
     IN IF SegLoopDone(i, Len(stroke[1]))
        THEN /\ IF k < Len(drawing)
                THEN /\ k' = k + 1
                     /\ pc' = "pen_up"
                ELSE /\ k' = k
                     /\ pc' = "trail"
             /\ UNCHANGED <<i, scaler, waitVars, wireVars, written>>
        ELSE IF SegSkipped(scaler, stroke, i)
        THEN /\ i' = i + 1
             /\ scaler' = IF DeltaMs(stroke, i) <= 0 THEN scaler
                           ELSE ScalerAfterScale(ScalerAfterScale(scaler))
             /\ UNCHANGED <<k, pc, waitVars, wireVars, written>>
        ELSE LET cmd == Cmd("FeedMove", ScaleX(scaler, stroke[1][i]),
                            ScaleY(scaler, stroke[2][i]),
                            ClampedVelocity(scaler, stroke, i), k, i, pen)
             IN /\ SendWrite(cmd)
                /\ written' = Append(written, cmd)
                /\ i' = i + 1
                /\ scaler' = ScalerAfterScale(ScalerAfterScale(scaler))
                /\ UNCHANGED <<k, pc>>
  /\ UNCHANGED <<s, inputVars, driverVars, setupIdx, drawing, nStrokes,
                 rawWrites, error>>

\* line 162: f"G1 Z{PEN_UP} F7000"
TrailCmdPenDown(p) == Cmd("PenDown", 0, 0, 7000 * Unit, 0, 0, p)
TrailCmd(p) == Cmd("PenUp", 0, 0, 7000 * Unit, 0, 0, p)

\* line 162
DrawingEnd ==
  /\ pc = "trail"
  /\ LET cmd == TrailCmd(pen)
     IN /\ SendWrite(cmd)
        /\ written' = Append(written, cmd)
  /\ pc' = "counted"
  /\ UNCHANGED <<s, inputVars, driverVars, setupIdx, plotVars, nStrokes,
                 rawWrites, error>>

Next ==
  \/ OpenSerial
  \/ OpenSerialFails
  \/ SetupSend
  \/ Fetch
  \/ FetchFails
  \/ IterNext
  \/ PlotBegin
  \/ StrokePenUp
  \/ StrokeRapid
  \/ StrokePenDown
  \/ Segment
  \/ DrawingEnd
  \/ Counted
  \/ FinalPenUp
  \/ FinalHome
  \/ Close
  \/ ReadLine

Spec == Init /\ [][Next]_vars

\* the interpreter keeps executing the single thread of main
FairSpec == Init /\ [][Next]_vars /\ WF_vars(Next)

\* =============================================================== claims
HasToken(raw, tok) == Contains(Lower(Strip(raw)), tok)
EndsWait(raw) ==
  HasToken(raw, TokOk) \/ HasToken(raw, TokError) \/ HasToken(raw, TokAlarm)
Terminated == pc \in {"done", "crashed", "exited"}
StrokeCmds(kk) == SelectSeq(written, LAMBDA c : c.k = kk)
Kinds(q) == [j \in 1..Len(q) |-> q[j].kind]

\* C1: on a real transport a command is written only when no earlier command
\* still awaits its terminating line, and after the wait of the previous
\* command ended on a line containing ok, error or alarm; never are two
\* written commands awaiting their terminating line at once.
C1_FlowControl ==
  [][s' = SerialInstance =>
       /\ pending' <= 1
       /\ nWrites' # nWrites =>
            /\ pending = 0
            /\ pending' = 1
            /\ nWrites > 0 =>
                 /\ lastOutcome \in {"Acknowledged", "DeviceFault"}
                 /\ EndsWait(lastRaw)]_vars

C1_Witness ==
  /\ s = SerialInstance
  /\ nWrites >= 2
  /\ sendState = "wait"
  /\ pending = 1

\* C2: once a wait has ended on an error or alarm line, no further command
\* is written to the transport in that run: in particular the step that
\* follows such a wait writes nothing.
C2_FailFast == [][lastOutcome = "DeviceFault" => nWrites' = nWrites]_vars

\* C3: a command written to a real transport whose device never delivers a
\* terminating line is eventually given up: send returns.
C3_WaitEnds ==
  (sendState = "wait" /\ s = SerialInstance /\ device = "mute")
    ~> (sendState # "wait")

\* C4: on the simulated transport send never enters the acknowledgment read
\* and returns normally for every command.
C4_SimulatedSend ==
  s = MockInstance => (sendState = "idle" /\ error # "AttributeError")

\* C5: after the fallback to the simulated transport the run proceeds to
\* close() without an error.
C5_FallbackNonFatal == s = MockInstance => error = "none"

\* C6: a wait in which a line containing "error" (any letter case, any
\* surrounding text) has been read ends on that line with DeviceFault.
C6_FaultClassification ==
  (nread > 0 /\ HasToken(lastRaw, TokError)) =>
    (sendState = "idle" /\ lastOutcome = "DeviceFault")

\* C7: during the wait a line with none of ok, error, alarm is consumed and
\* the wait goes on; a line containing ok (any letter case) ends the wait
\* with Acknowledged; once the wait has ended send reads no further line.
C7_WaitScanning ==
  [][/\ (sendState = "wait" /\ s = SerialInstance) =>
          /\ nread' = Min2(nread + 1, MaxReads)
          /\ ~EndsWait(lastRaw') =>
               (sendState' = "wait" /\ nWrites' = nWrites /\ pc' = pc)
          /\ HasToken(lastRaw', TokOk) =>
               (sendState' = "idle" /\ lastOutcome' = "Acknowledged")
     /\ sendState # "wait" =>
          \/ lastRaw' = lastRaw /\ nread' = nread
          \/ nWrites' = nWrites + 1 /\ lastRaw' = <<>> /\ nread' = 0]_vars

C7_Witness ==
  /\ s = SerialInstance
  /\ nread >= 2
  /\ lastRaw = LineOkUpper
  /\ sendState = "idle"
  /\ lastOutcome = "Acknowledged"

\* C8: the commands of every stroke of the drawing being plotted are PenUp,
\* RapidMove to the scaled first point, PenDown, then FeedMoves to scaled
\* points of ascending index, strokes in order; a RapidMove is always written
\* with the pen up and a FeedMove with the pen down.
C8_StrokeOrder ==
  /\ lastCmd.kind = "RapidMove" => lastCmd.pen = "up"
  /\ lastCmd.kind = "FeedMove" => lastCmd.pen = "down"
  /\ pc # "plot" =>
       /\ \A a \in 1..Len(written) : \A b \in a..Len(written) :
            (written[a].k >= 1 /\ written[b].k >= 1) =>
              written[a].k <= written[b].k
       /\ \A kk \in 1..Len(drawing) :
            LET q == StrokeCmds(kk)
                stroke == drawing[kk]
            IN /\ Len(q) >= 1 => q[1].kind = "PenUp"
               /\ Len(q) >= 2 =>
                    /\ q[2].kind = "RapidMove"
                    /\ q[2].pen = "up"
                    /\ q[2].x = ScaleX(scaler, stroke[1][1])
                    /\ q[2].y = ScaleY(scaler, stroke[2][1])
               /\ Len(q) >= 3 => q[3].kind = "PenDown"
               /\ \A j \in 4..Len(q) :
                    /\ q[j].kind = "FeedMove"
                    /\ q[j].pen = "down"
                    /\ q[j].i > q[j - 1].i
                    /\ q[j].i \in 2..Len(stroke[1])
                    /\ q[j].x = ScaleX(scaler, stroke[1][q[j].i])
                    /\ q[j].y = ScaleY(scaler, stroke[2][q[j].i])

C8_Witness ==
  /\ pc = "counted"
  /\ Len(drawing) = 2
  /\ Len(StrokeCmds(1)) >= 4
  /\ Len(StrokeCmds(2)) = 3

\* C9: a drawing whose bounding box has zero range on both axes is plotted
\* without a division by zero.
C9_DegenerateGeometry == error # "ZeroDivisionError"

\* C10: every stroke of length 1, in any drawing, is plotted without an
\* error as exactly PenUp, RapidMove, PenDown.
C10_SinglePointStroke ==
  \A kk \in 1..Len(drawing) :
    (pc # "plot" /\ Len(drawing[kk][1]) = 1) =>
      /\ error = "none"
      /\ (pc \in {"counted", "iter", "final_up", "final_home", "close", "done"}
            \/ k > kk) =>
           Kinds(StrokeCmds(kk)) = <<"PenUp", "RapidMove", "PenDown">>


\* stroke kk of the drawing being plotted has been left by the stroke loop
StrokeDone(kk) ==
  /\ error = "none"
  /\ pc # "plot"
  /\ \/ k > kk
     \/ pc \in {"trail", "counted", "iter", "final_up", "final_home", "close",
                "done"}

\* stream_and_plot has returned to main
Returned == pc \in {"final_up", "final_home", "close", "done"}

\* C11: in a finished stroke a FeedMove to point i has been emitted exactly
\* for the indices i whose time step is positive and whose scaled points
\* i-1 and i differ; skipped segments do not stop later ones, so a stroke
\* with increasing timestamps and distinct points has n-1 FeedMoves.
C11_SegmentSkipping ==
  \A kk \in 1..Len(drawing) :
    StrokeDone(kk) =>
      LET stroke == drawing[kk]
          q == StrokeCmds(kk)
          moved(j) ==
            \/ ScaleX(scaler, stroke[1][j]) # ScaleX(scaler, stroke[1][j - 1])
            \/ ScaleY(scaler, stroke[2][j]) # ScaleY(scaler, stroke[2][j - 1])
          expected ==
            {j \in 2..Len(stroke[1]) :
               stroke[3][j] - stroke[3][j - 1] > 0 /\ moved(j)}
      IN /\ {q[j].i : j \in 4..Len(q)} = expected
         /\ Len(q) = 3 + Cardinality(expected)

C11_Witness ==
  /\ pc = "counted"
  /\ drawing = DSkipFirst
  /\ Len(written) = 5
  /\ written[4].kind = "FeedMove"
  /\ written[4].i = 3

\* C12: when stream_and_plot returns it has plotted min(limit, N) drawings,
\* N being the number of non-empty lines of the source, and they are the
\* first ones in arrival order; a drawing is started only after the last
\* command of the previous one was sent and answered.
RecordPositions == {p \in 1..Len(source) : source[p] = "record"}
NthRecord(j) ==
  CHOOSE p \in RecordPositions :
    Cardinality({r \in RecordPositions : r <= p}) = j

C12_LimitAndOrder ==
  /\ Returned =>
       LET m == Min2(limit, Cardinality(RecordPositions))
       IN /\ count = m
          /\ Len(plotted) = m
          /\ \A j \in 1..m : plotted[j] = NthRecord(j)
  /\ Len(plotted) = count
  /\ (pc = "plot" /\ count >= 1) =>
       /\ pending = 0
       /\ sendState = "idle"
       /\ lastCmd.kind = "PenUp"
       /\ lastCmd.k = 0

C12_Witness ==
  /\ pc = "done"
  /\ limit = 1
  /\ source = <<"record", "record">>
  /\ plotted = <<1>>

\* C13 as claimed: when the driver returns after one or more drawings, one
\* PenUp that starts no stroke has been sent in all, and it is the last
\* command sent.
C13_SingleTrailingPenUp ==
  (pc = "final_up" /\ count >= 1) =>
    (nPenUps = nStrokes + 1 /\ lastCmd.kind = "PenUp")

\* C13 as amended: every processed drawing ends with one PenUp that starts
\* no stroke, its last command, so between drawings and when the driver
\* returns the PenUps are the strokes plus the drawings processed; a drawing
\* without strokes sends exactly that PenUp.
C13_TrailingPenUpPerDrawing ==
  /\ pc \in {"iter", "final_up"} =>
       /\ nPenUps = nStrokes + count
       /\ count >= 1 => (lastCmd.kind = "PenUp" /\ lastCmd.k = 0)
  /\ pc = "counted" =>
       /\ Len(StrokeCmds(0)) = 1
       /\ written[Len(written)] = StrokeCmds(0)[1]
       /\ written[Len(written)].kind = "PenUp"
       /\ drawing = <<>> => Len(written) = 1

C13_Witness ==
  /\ pc = "final_up"
  /\ count = 2
  /\ nStrokes >= 1
  /\ nPenUps = nStrokes + 2

\* plot_drawing is past the construction of a Scaler for a drawing with strokes
ScalerInUse ==
  /\ drawing # <<>>
  /\ pc \in {"pen_up", "rapid", "pen_down", "segment", "trail", "counted"}

InSquare(v) == MARGIN * Unit <= v /\ v <= (BOUNDS + MARGIN) * Unit

\* the Scaler of the drawing has just been built and nothing was sent yet
ScalerBuilt == ScalerInUse /\ written = <<>>

\* C14: the Scaler just built for a drawing maps every point of the bounding
\* box to deviceX >= 0 and deviceY <= 0, both within [margin, bounds + margin]
\* in absolute value, margin being the 5 of Scaler.scale; and every move sent
\* for the drawing lies in that square.
C14_PlacementInside ==
  /\ ScalerBuilt =>
       LET bb == BBox(drawing)
       IN \A x \in bb.min_x..bb.max_x : \A y \in bb.min_y..bb.max_y :
            /\ ScaleX(scaler, x) >= 0
            /\ ScaleY(scaler, y) <= 0
            /\ InSquare(ScaleX(scaler, x))
            /\ InSquare(-ScaleY(scaler, y))
  /\ ScalerInUse =>
       \A j \in 1..Len(written) :
         written[j].kind \in {"RapidMove", "FeedMove"} =>
           (InSquare(written[j].x) /\ InSquare(-written[j].y))

C14_Witness ==
  /\ pc = "counted"
  /\ \E j \in 1..Len(written) :
       /\ written[j].kind = "FeedMove"
       /\ written[j].x = (BOUNDS + MARGIN) * Unit
       /\ written[j].y = -((BOUNDS + MARGIN) * Unit)

\* velocity * SPEED_MULTIPLIER of the segment a sent FeedMove belongs to,
\* from the samples of the drawing
RawFeed(c) ==
  LET stroke == drawing[c.k]
      dx == ScaleX(scaler, stroke[1][c.i]) - ScaleX(scaler, stroke[1][c.i - 1])
      dy == ScaleY(scaler, stroke[2][c.i]) - ScaleY(scaler, stroke[2][c.i - 1])
      dt == stroke[3][c.i] - stroke[3][c.i - 1]
  IN (ISqrt(dx * dx + dy * dy) * 1000 * SPEED_MULTIPLIER) \div dt

FeedMoves == {j \in 1..Len(written) : written[j].kind = "FeedMove"}

\* C15: every FeedMove sent carries min(velocity * SPEED_MULTIPLIER, 11500),
\* which is positive and at most 11500.
C15_FeedClamp ==
  ScalerInUse =>
    \A j \in FeedMoves :
      /\ written[j].f = Min2(RawFeed(written[j]), MAX_FEED * Unit)
      /\ written[j].f > 0
      /\ written[j].f <= MAX_FEED * Unit

C15_Witness ==
  /\ ScalerInUse
  /\ \E j \in FeedMoves :
       /\ RawFeed(written[j]) > MAX_FEED * Unit
       /\ written[j].f = MAX_FEED * Unit

\* speed multipliers to compare: real time, the module's value, twice that
Multipliers == {1, SPEED_MULTIPLIER, 2 * SPEED_MULTIPLIER}

\* C16: for the segment of every FeedMove sent, a higher speed multiplier
\* gives a feed rate that is lower or equal.
C16_HigherIsSlower ==
  ScalerInUse =>
    \A j \in FeedMoves : \A m1 \in Multipliers : \A m2 \in Multipliers :
      m1 < m2 =>
        FeedRate(scaler, drawing[written[j].k], written[j].i, m2)
          <= FeedRate(scaler, drawing[written[j].k], written[j].i, m1)

\* C17: a command is written once, at the step that emits it, and in
\* emission order: while send waits and when its wait ends (Acknowledged or
\* DeviceFault) nothing is written again, and every write of plot_drawing
\* is the command just appended to the emitted ones.
C17_ExactlyOnce ==
  [][/\ nWrites' \in {nWrites, nWrites + 1}
     /\ sendState = "wait" =>
          (nWrites' = nWrites /\ lastCmd' = lastCmd /\ written' = written)
     /\ nWrites' = nWrites + 1 =>
          /\ sendState = "idle"
          /\ pc \in {"pen_up", "rapid", "pen_down", "segment", "trail"} =>
               written' = Append(written, lastCmd')
          /\ pc \notin {"pen_up", "rapid", "pen_down", "segment", "trail"} =>
               written' = written
     /\ (written' # written /\ pc \notin {"plot", "counted"}) =>
          (nWrites' = nWrites + 1 /\ written' = Append(written, lastCmd'))]_vars

C17_Witness ==
  /\ pc = "counted"
  /\ sendState = "idle"
  /\ lastOutcome = "DeviceFault"
  /\ Len(written) = 5
  /\ nWrites = NSETUP + 5

\* the Scalers the constructor can return for the drawing
FreshScalers ==
  {NewScaler(BBox(drawing), BOUNDS, sp, ox, oy) :
     sp \in ScaleChoices, ox \in OffsetChoices, oy \in OffsetChoices}

\* C18: from its construction at the start of plot_drawing, which builds a
\* new Scaler from the bounding box of that drawing, until plot_drawing has
\* returned, no step changes a field of the Scaler; every move, at the step
\* that sends it, is the image of its sample under that Scaler, so all moves
\* of one drawing are mapped by one and the same mapping.
C18_ScalerImmutable ==
  [][/\ pc \notin {"plot", "counted"} => scaler' = scaler
     /\ (ScalerInUse /\ ScalerInUse') =>
          (scaler' = scaler /\ drawing' = drawing)
     /\ (pc = "plot" /\ pc' = "pen_up") => scaler' \in FreshScalers
     /\ (/\ pc # "plot"
         /\ written' # written
         /\ lastCmd'.kind \in {"RapidMove", "FeedMove"}) =>
          /\ lastCmd'.x = ScaleX(scaler, drawing[lastCmd'.k][1][lastCmd'.i])
          /\ lastCmd'.y = ScaleY(scaler, drawing[lastCmd'.k][2][lastCmd'.i])]_vars

C18_Witness ==
  /\ pc = "counted"
  /\ count = 1
  /\ Len(written) >= 5

\* non-empty lines among those pulled from the source so far
RecordsPulled == Cardinality({p \in RecordPositions : p <= pos})

\* source position of the line on which the limit was reached
LimitPos == IF limit = 0 THEN 0 ELSE plotted[limit]

\* C19 as claimed: the records consumed from the source are at most `limit`.
C19_PullsAtMostLimit == RecordsPulled <= limit

\* C19 as amended: once `limit` drawings are processed the driver pulls one
\* more line, if the source has one, and returns on it without plotting it;
\* the records consumed are at most limit + 1.
C19_PullsOneMore ==
  /\ RecordsPulled <= limit + 1
  /\ count = limit => pos <= LimitPos + 1
  /\ (Returned /\ pos < Len(source)) => (count = limit /\ pos = LimitPos + 1)
  /\ (Returned /\ count = limit /\ LimitPos < Len(source)) =>
       pos = LimitPos + 1

C19_Witness ==
  /\ pc = "final_up"
  /\ limit = 1
  /\ source = <<"record", "record">>
  /\ count = 1
  /\ pos = 2

\* the last move (RapidMove or FeedMove) sent for stroke kk
LastMove(kk) ==
  LET q == StrokeCmds(kk)
  IN IF q[Len(q)].kind = "PenDown" THEN q[2] ELSE q[Len(q)]

EndsAtSample(kk, j) ==
  /\ LastMove(kk).x = ScaleX(scaler, drawing[kk][1][j])
  /\ LastMove(kk).y = ScaleY(scaler, drawing[kk][2][j])

Increasing(ts) == \A j \in 2..Len(ts) : ts[j - 1] < ts[j]

\* C20 as claimed: for every finished stroke the last commanded position is
\* the scaled last sample of the stroke.
C20_DrawnToEnd ==
  \A kk \in 1..Len(drawing) :
    StrokeDone(kk) => EndsAtSample(kk, Len(drawing[kk][1]))

\* C20 as amended: for every finished stroke the last commanded position is
\* the scaled sample the last move was sent for (the first sample if every
\* segment was skipped); it is the scaled last sample of the stroke whenever
\* the timestamps of the stroke increase strictly, zero-length segments
\* being skipped without effect.
C20_DrawnToLastSent ==
  \A kk \in 1..Len(drawing) :
    StrokeDone(kk) =>
      /\ EndsAtSample(kk, LastMove(kk).i)
      /\ Increasing(drawing[kk][3]) => EndsAtSample(kk, Len(drawing[kk][1]))

C20_Witness ==
  /\ pc = "counted"
  /\ drawing = DDup
  /\ Len(written) = 5
  /\ EndsAtSample(1, 3)

====
